---- MODULE Spec2Model ----
(***************************************************************************)
(* A model of the PubMed paper pipeline: the keyword highlighter and the   *)
(* title filter of excel_writer.py, the mixed-content flattener and the    *)
(* record extraction of data_extractor.py, and the journal loop of main.py.*)
(*                                                                         *)
(* A Python str is a sequence of one-character strings; offsets are        *)
(* 0-based and slices are end-exclusive, as in the source.                 *)
(***************************************************************************)
EXTENDS Integers, Sequences, FiniteSets, TLC

VARIABLES
    text, keyword,          \* arguments of the highlighter call
    pc,                     \* position inside the highlighter
    start, last_end,        \* locals of both highlighter functions
    rich_text,              \* the CellRichText being built
    sub_keywords, kidx,     \* compound: the sub-keyword list and the loop index into it
    all_matches,            \* compound: (start, end, slice) of every match
    filtered_matches,       \* compound: the matches kept after overlap removal
    element, flat_result,   \* get_full_text: its argument and what it returned
    fpc,                    \* get_full_text: "call" or "done"
    xml_data, ex_result,    \* extract_paper_info: its argument and its outcome
    epc,                    \* extract_paper_info: "call" or "done"
    jidx, all_papers,       \* main: the journal loop's index and the records collected
    mpc, last_event,        \* main: position, and what the last iteration met
    papers_data, keywords,  \* write_to_excel: its arguments
    xpc, kwi,               \* write_to_excel: position and the keyword loop's index
    filtered_papers,        \* write_to_excel: the subset of the last keyword filtered
    fmti,                   \* write_to_excel: the formatting loop's index
    sheets,                 \* write_to_excel: writer.sheets, sheet name -> rows written
    reported,               \* write_to_excel: keywords reported as matching no paper
    formatted,              \* write_to_excel: keyword sheets that were formatted
    keywords_input,         \* get_keywords: the line the user typed
    display_keywords,       \* get_keywords: the parsed keywords as they are displayed
    gpc                     \* get_keywords: position

segVars == <<text, keyword, pc, start, last_end, rich_text,
             sub_keywords, kidx, all_matches, filtered_matches>>
flatVars == <<element, flat_result, fpc>>
exVars == <<xml_data, ex_result, epc>>
mainVars == <<jidx, all_papers, mpc, last_event>>
xlVars == <<papers_data, keywords, xpc, kwi, filtered_papers, fmti, sheets, reported,
            formatted>>

kwVars == <<keywords_input, display_keywords, gpc>>

vars == <<segVars, flatVars, exVars, mainVars, xlVars, kwVars>>

\* The parts of the state a run of one component leaves alone.
SegIdle ==
    /\ text = <<>> /\ keyword = <<>> /\ pc = "idle" /\ start = 0 /\ last_end = 0
    /\ rich_text = <<>> /\ sub_keywords = <<>> /\ kidx = 0
    /\ all_matches = <<>> /\ filtered_matches = <<>>
FlatIdle == element = <<>> /\ flat_result = <<>> /\ fpc = "idle"
ExIdle == xml_data = <<>> /\ ex_result = <<>> /\ epc = "idle"
MainIdle == jidx = 0 /\ all_papers = <<>> /\ mpc = "idle" /\ last_event = "none"
XlIdle ==
    /\ papers_data = <<>> /\ keywords = <<>> /\ xpc = "idle" /\ kwi = 0
    /\ filtered_papers = <<>> /\ fmti = 0
    /\ sheets = {} /\ reported = {} /\ formatted = {}
KwIdle == keywords_input = <<>> /\ display_keywords = <<>> /\ gpc = "idle"

(***************************************************************************)
(* Bounds of the model.                                                    *)
(***************************************************************************)
MaxTextLen == 3
MaxKeyLen == 4

(***************************************************************************)
(* Python str operations.                                                  *)
(***************************************************************************)
UpperLetters == <<"A","B","C","D","E","F","G","H","I","J","K","L","M",
                  "N","O","P","Q","R","S","T","U","V","W","X","Y","Z">>
LowerLetters == <<"a","b","c","d","e","f","g","h","i","j","k","l","m",
                  "n","o","p","q","r","s","t","u","v","w","x","y","z">>

\* str.lower() of one character.  "Idot" is U+0130 (capital I with dot above),
\* whose lower case is the two code points U+0069 U+0307 ("i", "dot").
UpperSet == {UpperLetters[i] : i \in 1..26}
LowerOfUpper == [u \in UpperSet |-> LowerLetters[CHOOSE i \in 1..26 : UpperLetters[i] = u]]

LowerChar(c) ==
    IF c = "Idot" THEN <<"i", "dot">>
    ELSE IF c \in UpperSet THEN <<LowerOfUpper[c]>> ELSE <<c>>

RECURSIVE Lower(_)
Lower(s) == IF s = <<>> THEN <<>> ELSE LowerChar(Head(s)) \o Lower(Tail(s))

MinOf(S) == CHOOSE x \in S : \A y \in S : x <= y

\* s[a:b] for 0 <= a, 0 <= b
Slice(s, a, b) == SubSeq(s, a + 1, IF b < Len(s) THEN b ELSE Len(s))

\* s[a:]
SliceFrom(s, a) == SubSeq(s, a + 1, Len(s))

\* hay.find(needle, from): the lowest offset >= from where needle occurs, or -1
Find(hay, needle, from) ==
    LET hits == {i \in from..(Len(hay) - Len(needle)) :
                    SubSeq(hay, i + 1, i + Len(needle)) = needle}
    IN IF hits = {} THEN -1 ELSE MinOf(hits)

\* needle in hay
Contains(hay, needle) == Find(hay, needle, 0) # -1

IsSpace(c) == c = " "

RECURSIVE LStrip(_)
LStrip(s) == IF s # <<>> /\ IsSpace(Head(s)) THEN LStrip(Tail(s)) ELSE s

RECURSIVE RStrip(_)
RStrip(s) ==
    IF s # <<>> /\ IsSpace(s[Len(s)]) THEN RStrip(SubSeq(s, 1, Len(s) - 1)) ELSE s

\* s.strip()
Strip(s) == RStrip(LStrip(s))

\* s.split(sep) for a one-character separator
RECURSIVE Split(_, _)
Split(s, sep) ==
    LET p == Find(s, <<sep>>, 0)
    IN IF p = -1 THEN <<s>>
       ELSE <<Slice(s, 0, p)>> \o Split(SliceFrom(s, p + 1), sep)

RECURSIVE SelectSeqNonEmpty(_)
SelectSeqNonEmpty(ss) ==
    IF ss = <<>> THEN <<>>
    ELSE (IF Head(ss) # <<>> THEN <<Head(ss)>> ELSE <<>>) \o SelectSeqNonEmpty(Tail(ss))

\* [k.strip() for k in compound_keyword.split('+') if k.strip()]
SubKeywords(compound_keyword) ==
    LET parts == Split(compound_keyword, "+")
    IN SelectSeqNonEmpty([i \in 1..Len(parts) |-> Strip(parts[i])])

\* '+' in keyword
IsCompound(kw) == \E i \in 1..Len(kw) : kw[i] = "+"

(***************************************************************************)
(* Rich text: a CellRichText is a list of runs.  A TextBlock with the      *)
(* highlight font is a highlighted run; a TextBlock with the normal font   *)
(* or a bare str is an unhighlighted run.                                  *)
(***************************************************************************)
NormalRun(t) == [text |-> t, hl |-> FALSE]
HighlightRun(t) == [text |-> t, hl |-> TRUE]

\* CellRichText(text or "")
PlainCell(t) == <<NormalRun(t)>>

NA == <<"N", "/", "A">>

\* mutant: the guard without the test for the "N/A" text
NothingToDoNoSentinel(t, kw) == t = <<>> \/ kw = <<>>

\* not text or not keyword or text == "N/A"
NothingToDo(t, kw) == t = <<>> \/ kw = <<>> \/ t = NA

\* if start > last_end: append(TextBlock(normal_font, text[last_end:start]))
BeforeRuns(t, le, st) == IF st > le THEN <<NormalRun(Slice(t, le, st))>> ELSE <<>>

\* mutant: the remaining text taken one character late
TailRunsLate(t, le) == IF le < Len(t) THEN <<NormalRun(SliceFrom(t, le + 1))>> ELSE <<>>

\* if last_end < len(text): append(TextBlock(normal_font, text[last_end:]))
TailRuns(t, le) == IF le < Len(t) THEN <<NormalRun(SliceFrom(t, le))>> ELSE <<>>

(***************************************************************************)
(* create_rich_text_with_compound_keyword_highlighting: helpers.           *)
(***************************************************************************)
\* any(sub_keyword.lower() in text_lower for sub_keyword in sub_keywords)
HasMatches(t, subs) == \E i \in 1..Len(subs) : Contains(Lower(t), Lower(subs[i]))

\* (pos, pos + len(sub_keyword), text[pos:pos + len(sub_keyword)])
Match(t, pos, sub) == [s |-> pos, e |-> pos + Len(sub), t |-> Slice(t, pos, pos + Len(sub))]

\* mutant: a sort that is not stable (an element goes before the elements of
\* equal key)
RECURSIVE InsertByStartUnstable(_, _)
InsertByStartUnstable(sorted, m) ==
    IF sorted = <<>> THEN <<m>>
    ELSE IF Head(sorted).s < m.s
         THEN <<Head(sorted)>> \o InsertByStartUnstable(Tail(sorted), m)
         ELSE <<m>> \o sorted

\* list.sort(key=lambda x: x[0]) is stable: an element goes after every element
\* whose key is not larger.
RECURSIVE InsertByStart(_, _)
InsertByStart(sorted, m) ==
    IF sorted = <<>> THEN <<m>>
    ELSE IF Head(sorted).s <= m.s THEN <<Head(sorted)>> \o InsertByStart(Tail(sorted), m)
         ELSE <<m>> \o sorted

RECURSIVE SortByStartFrom(_, _)
SortByStartFrom(sorted, rest) ==
    IF rest = <<>> THEN sorted
    ELSE SortByStartFrom(InsertByStart(sorted, Head(rest)), Tail(rest))

SortByStart(ms) == SortByStartFrom(<<>>, ms)

\* not filtered_matches or start_pos >= filtered_matches[-1][1]
KeepMatch(kept, m) == kept = <<>> \/ m.s >= kept[Len(kept)].e

RECURSIVE RemoveOverlaps(_, _)
RemoveOverlaps(kept, ms) ==
    IF ms = <<>> THEN kept
    ELSE RemoveOverlaps(IF KeepMatch(kept, Head(ms)) THEN Append(kept, Head(ms)) ELSE kept,
                        Tail(ms))

\* the text before a match, appended only when it is not empty
CompoundBeforeRuns(t, le, st) ==
    IF st > le /\ Slice(t, le, st) # <<>> THEN <<NormalRun(Slice(t, le, st))>> ELSE <<>>

\* the match itself, appended only when it is not empty
CompoundMatchRuns(m) == IF m.t # <<>> THEN <<HighlightRun(m.t)>> ELSE <<>>

\* the text after the last match, appended only when it is not empty
CompoundTailRuns(t, le) ==
    IF le < Len(t) /\ SliceFrom(t, le) # <<>> THEN <<NormalRun(SliceFrom(t, le))>> ELSE <<>>

RECURSIVE BuildRuns(_, _, _)
BuildRuns(t, ms, le) ==
    IF ms = <<>> THEN CompoundTailRuns(t, le)
    ELSE CompoundBeforeRuns(t, le, Head(ms).s) \o CompoundMatchRuns(Head(ms))
         \o BuildRuns(t, Tail(ms), Head(ms).e)

(***************************************************************************)
(* The inputs of the highlighter.                                          *)
(***************************************************************************)
TextAlphabet == {"a", "B", "Idot"}
KeyAlphabet == {"A", "b", "+"}

\* keywords with spaces around the terms, as strip() meets them
SpacedKeywords ==
    {<<" ">>, <<" ", "A">>, <<"b", " ">>, <<" ", "+", " ">>, <<"A", " ", "+", " ", "b">>,
     <<" ", "A", "b", " ", "+">>, <<"A", " ", "b", "+", " ", "b", " ">>}

StringsUpTo(A, n) == UNION {[1..k -> A] : k \in 0..n}

ExamplePairs ==
    { <<<<"a","a","a">>, <<"a","a">>>>,
      <<<<"a","b","c","d","e","f">>, <<"a","b","c","+","b","c","d">>>>,
      <<<<"A","l","p","h","a","F","o","l","d"," ","a","n","d"," ","E","S","M","F","o","l","d"," ","a","r","e"," ","t","o","o","l","s">>, <<"A","l","p","h","a","f","o","l","d","+","E","S","M","f","o","l","d">>>> }

SmallTexts == StringsUpTo(TextAlphabet, MaxTextLen) \cup {NA}
SmallKeywords == StringsUpTo(KeyAlphabet, MaxKeyLen) \cup SpacedKeywords

(***************************************************************************)
(* The highlighter as write_to_excel calls it: the compound function for a *)
(* keyword holding '+', the single-keyword function otherwise.             *)
(***************************************************************************)
SegInit ==
    /\ \/ text \in SmallTexts /\ keyword \in SmallKeywords
       \/ \E in \in ExamplePairs : text = in[1] /\ keyword = in[2]
    /\ pc = "call"
    /\ start = 0
    /\ last_end = 0
    /\ rich_text = <<>>
    /\ sub_keywords = <<>>
    /\ kidx = 0
    /\ all_matches = <<>>
    /\ filtered_matches = <<>>

\* create_rich_text_with_keyword_highlighting, up to the loop
SingleCall ==
    /\ pc = "call"
    /\ ~IsCompound(keyword)
    /\ IF NothingToDo(text, keyword)
       THEN /\ rich_text' = PlainCell(text)
            /\ pc' = "done"
       ELSE /\ rich_text' = <<>>
            /\ pc' = "scan"
    /\ start' = 0
    /\ last_end' = 0
    /\ UNCHANGED <<text, keyword, sub_keywords, kidx, all_matches, filtered_matches>>
    /\ UNCHANGED <<flatVars, exVars, mainVars, xlVars, kwVars>>

\* one iteration of the loop that finds the keyword
SingleMatch ==
    /\ pc = "scan"
    /\ LET pos == Find(Lower(text), Lower(keyword), start)
           end == pos + Len(keyword)
       IN /\ pos # -1
          /\ rich_text' = rich_text \o BeforeRuns(text, last_end, pos)
                                    \o <<HighlightRun(Slice(text, pos, end))>>
          /\ last_end' = end
          /\ start' = end
    /\ UNCHANGED <<text, keyword, pc, sub_keywords, kidx, all_matches, filtered_matches>>
    /\ UNCHANGED <<flatVars, exVars, mainVars, xlVars, kwVars>>

\* the iteration that finds nothing: break, the remaining text, return
SingleReturn ==
    /\ pc = "scan"
    /\ Find(Lower(text), Lower(keyword), start) = -1
    /\ rich_text' = rich_text \o TailRuns(text, last_end)
    /\ pc' = "done"
    /\ start' = -1
    /\ UNCHANGED <<text, keyword, last_end, sub_keywords, kidx, all_matches, filtered_matches>>
    /\ UNCHANGED <<flatVars, exVars, mainVars, xlVars, kwVars>>

\* create_rich_text_with_compound_keyword_highlighting, up to the match loops
CompoundCall ==
    /\ pc = "call"
    /\ IsCompound(keyword)
    /\ LET subs == IF NothingToDo(text, keyword) THEN <<>> ELSE SubKeywords(keyword)
       IN /\ sub_keywords' = subs
          /\ IF NothingToDo(text, keyword) \/ subs = <<>> \/ ~HasMatches(text, subs)
             THEN /\ rich_text' = PlainCell(text)
                  /\ pc' = "done"
                  /\ kidx' = 0
             ELSE /\ rich_text' = <<>>
                  /\ pc' = "collect"
                  /\ kidx' = 1
    /\ start' = 0
    /\ all_matches' = <<>>
    /\ UNCHANGED <<text, keyword, last_end, filtered_matches>>
    /\ UNCHANGED <<flatVars, exVars, mainVars, xlVars, kwVars>>

\* one iteration of the inner loop that finds the current sub-keyword
CompoundCollect ==
    /\ pc = "collect"
    /\ LET sub == sub_keywords[kidx]
           pos == Find(Lower(text), Lower(sub), start)
       IN /\ pos # -1
          /\ all_matches' = Append(all_matches, Match(text, pos, sub))
          /\ start' = pos + Len(sub)
    /\ UNCHANGED <<text, keyword, pc, last_end, rich_text, sub_keywords, kidx,
                   filtered_matches>>
    /\ UNCHANGED <<flatVars, exVars, mainVars, xlVars, kwVars>>

\* the inner iteration that finds nothing: break, on to the next sub-keyword
CompoundNextKeyword ==
    /\ pc = "collect"
    /\ Find(Lower(text), Lower(sub_keywords[kidx]), start) = -1
    /\ kidx' = kidx + 1
    /\ start' = 0
    /\ pc' = IF kidx + 1 > Len(sub_keywords) THEN "filter" ELSE "collect"
    /\ UNCHANGED <<text, keyword, last_end, rich_text, sub_keywords, all_matches,
                   filtered_matches>>
    /\ UNCHANGED <<flatVars, exVars, mainVars, xlVars, kwVars>>

\* sort the matches by start and remove the overlaps
CompoundFilter ==
    /\ pc = "filter"
    /\ IF all_matches = <<>>
       THEN /\ rich_text' = PlainCell(text)
            /\ pc' = "done"
            /\ UNCHANGED <<all_matches, filtered_matches>>
       ELSE /\ all_matches' = SortByStart(all_matches)
            /\ filtered_matches' = RemoveOverlaps(<<>>, SortByStart(all_matches))
            /\ pc' = "build"
            /\ UNCHANGED rich_text
    /\ UNCHANGED <<text, keyword, start, last_end, sub_keywords, kidx>>
    /\ UNCHANGED <<flatVars, exVars, mainVars, xlVars, kwVars>>

\* build the rich text from the kept matches and return it
CompoundBuild ==
    /\ pc = "build"
    /\ LET runs == BuildRuns(text, filtered_matches, 0)
       IN rich_text' = IF Len(runs) = 0 THEN PlainCell(text) ELSE runs
    /\ last_end' = filtered_matches[Len(filtered_matches)].e
    /\ pc' = "done"
    /\ UNCHANGED <<text, keyword, start, sub_keywords, kidx, all_matches, filtered_matches>>
    /\ UNCHANGED <<flatVars, exVars, mainVars, xlVars, kwVars>>

Next ==
    \/ SingleCall
    \/ SingleMatch
    \/ SingleReturn
    \/ CompoundCall
    \/ CompoundCollect
    \/ CompoundNextKeyword
    \/ CompoundFilter
    \/ CompoundBuild

Init == SegInit /\ FlatIdle /\ ExIdle /\ MainIdle /\ XlIdle /\ KwIdle

Spec == Init /\ [][Next]_vars

(***************************************************************************)
(* Properties of the highlighter.                                          *)
(***************************************************************************)
RECURSIVE ConcatRuns(_)
ConcatRuns(rt) == IF rt = <<>> THEN <<>> ELSE Head(rt).text \o ConcatRuns(Tail(rt))

\* the offset in the concatenation at which run i starts
RunOffset(rt, i) == Len(ConcatRuns(SubSeq(rt, 1, i - 1)))

HighlightedIdx(rt) == {i \in 1..Len(rt) : rt[i].hl}

\* the highlighted runs in order, each with its offset
RECURSIVE HighlightSpansFrom(_, _)
HighlightSpansFrom(rt, i) ==
    IF i > Len(rt) THEN <<>>
    ELSE (IF rt[i].hl THEN <<[off |-> RunOffset(rt, i), text |-> rt[i].text]>> ELSE <<>>)
         \o HighlightSpansFrom(rt, i + 1)

HighlightSpans(rt) == HighlightSpansFrom(rt, 1)

\* the term occurs in t at offset p, compared without regard to case
OccursAt(t, term, p) ==
    /\ p + Len(term) <= Len(t)
    /\ Lower(Slice(t, p, p + Len(term))) = Lower(term)

\* the left-to-right scan of t for a non-empty term, resumed at the end of each match
RECURSIVE ScanOccurrences(_, _, _)
ScanOccurrences(t, term, from) ==
    LET hits == {p \in from..Len(t) : OccursAt(t, term, p)}
    IN IF hits = {} THEN <<>>
       ELSE LET p == MinOf(hits)
            IN <<[off |-> p, text |-> Slice(t, p, p + Len(term))]>>
               \o ScanOccurrences(t, term, p + Len(term))

SingleDone == pc = "done" /\ ~IsCompound(keyword)
CompoundDone == pc = "done" /\ IsCompound(keyword)

\* C1: when either highlighter function has returned, the texts of the runs of
\* the result, concatenated in order, are the text argument exactly.
C1_RoundTrip == pc = "done" => ConcatRuns(rich_text) = text

\* C1 witness: a compound call has returned two highlighted runs and at least one
\* unhighlighted run.
C1_Witness ==
    /\ CompoundDone
    /\ Cardinality(HighlightedIdx(rich_text)) >= 2
    /\ \E i \in 1..Len(rich_text) : ~rich_text[i].hl

\* C2: for a single-term call that reached the scan, the highlighted runs are
\* exactly the occurrences of the term in the text that a left-to-right
\* case-insensitive scan resuming at the end of each match finds, at their
\* offsets; "aa" in "aaa" gives "aa" at 0 and then the unhighlighted "a".
C2_SingleScanExact ==
    /\ (SingleDone /\ ~NothingToDo(text, keyword))
          => HighlightSpans(rich_text) = ScanOccurrences(text, keyword, 0)
    /\ (SingleDone /\ text = <<"a","a","a">> /\ keyword = <<"a","a">>)
          => rich_text = <<HighlightRun(<<"a","a">>), NormalRun(<<"a">>)>>

\* the first sub-keyword that a match can come from
TermIndex(m) ==
    MinOf({k \in 1..Len(sub_keywords) :
              /\ Len(sub_keywords[k]) = m.e - m.s
              /\ Find(Lower(text), Lower(sub_keywords[k]), m.s) = m.s})

\* m comes before o: by start offset, then by sub-term order
ComesBefore(m, o) == m.s < o.s \/ (m.s = o.s /\ TermIndex(m) < TermIndex(o))

\* the greedy left-to-right selection over a set of candidate matches
RECURSIVE GreedySelection(_, _)
GreedySelection(cands, lastEnd) ==
    IF cands = {} THEN <<>>
    ELSE LET m == CHOOSE x \in cands : \A o \in cands \ {x} : ComesBefore(x, o)
         IN IF m.s >= lastEnd
            THEN <<m>> \o GreedySelection(cands \ {m}, m.e)
            ELSE GreedySelection(cands \ {m}, lastEnd)

Range(f) == {f[i] : i \in DOMAIN f}

\* C3: once the compound function has filtered its matches, the kept matches are
\* the greedy left-to-right selection over all matches ordered by start offset
\* and then by sub-term order, they are in increasing offset order and no two of
\* them overlap; "abc+bcd" in "abcdef" keeps only "abc" at 0-3.
C3_KeptIsGreedy ==
    pc = "build" =>
        /\ filtered_matches = GreedySelection(Range(all_matches), 0)
        /\ \A i, j \in 1..Len(filtered_matches) :
              i < j => filtered_matches[i].e <= filtered_matches[j].s
        /\ (text = <<"a","b","c","d","e","f">> /\ keyword = <<"a","b","c","+","b","c","d">>)
              => filtered_matches = <<[s |-> 0, e |-> 3, t |-> <<"a","b","c">>]>>

\* C3 witness: the filter has dropped a match that starts where a kept match of
\* another sub-term starts.
C3_Witness ==
    /\ pc = "build"
    /\ \E i \in 1..Len(all_matches) : \E j \in 1..Len(filtered_matches) :
          /\ all_matches[i].s = filtered_matches[j].s
          /\ all_matches[i].e # filtered_matches[j].e

\* C8: when the compound function has returned, every highlighted run is the
\* slice of the text at the run's offset and its lower case is the lower case of
\* one of the sub-terms, and every unhighlighted run is the slice of the text at
\* its offset; the example of the specification gives "AlphaFold" and "ESMFold".
C8_CompoundRunsAreSubTerms ==
    /\ CompoundDone =>
          \A i \in 1..Len(rich_text) :
             /\ rich_text[i].text =
                   Slice(text, RunOffset(rich_text, i),
                         RunOffset(rich_text, i) + Len(rich_text[i].text))
             /\ rich_text[i].hl =>
                   \E k \in 1..Len(SubKeywords(keyword)) :
                      Lower(rich_text[i].text) = Lower(SubKeywords(keyword)[k])
    /\ (CompoundDone /\ text = <<"A","l","p","h","a","F","o","l","d"," ","a","n","d"," ","E","S","M","F","o","l","d"," ","a","r","e"," ","t","o","o","l","s">> /\ keyword = <<"A","l","p","h","a","f","o","l","d","+","E","S","M","f","o","l","d">>) =>
          rich_text = <<HighlightRun(<<"A","l","p","h","a","F","o","l","d">>), NormalRun(<<" ","a","n","d"," ">>), HighlightRun(<<"E","S","M","F","o","l","d">>), NormalRun(<<" ","a","r","e"," ","t","o","o","l","s">>)>>

\* no term of the keyword spec occurs in the text, compared without regard to case
ZeroMatches(t, kw) ==
    IF IsCompound(kw)
    THEN \A k \in 1..Len(SubKeywords(kw)) : ~Contains(Lower(t), Lower(SubKeywords(kw)[k]))
    ELSE ~Contains(Lower(t), Lower(kw))

\* C10: when there is nothing to highlight (empty text, empty keyword, the text
\* "N/A", or no match of the keyword spec in the text) the function called
\* returns one unhighlighted run that is the whole text and no highlighted run.
C10_NothingToHighlight ==
    (pc = "done" /\ (text = <<>> \/ keyword = <<>> \/ text = <<"N", "/", "A">>
                       \/ ZeroMatches(text, keyword)))
        => rich_text = <<NormalRun(text)>>

\* C10 witness: a call with the text "N/A" and a keyword that occurs in it has
\* returned.
C10_Witness ==
    /\ pc = "done"
    /\ text = NA
    /\ keyword # <<>>
    /\ ~ZeroMatches(text, keyword)

(***************************************************************************)
(* get_full_text of data_extractor.py.  An element is its text, its        *)
(* children in order and its tail; an absent text or tail is the empty     *)
(* string, as `element.text or ""` and `if child.tail` make it.            *)
(***************************************************************************)
MaxNodes == 3

FlatStrings == {<<>>, <<"a">>, <<" ">>, <<" ", "b">>}

Element(t, cs, tl) == [text |-> t, children |-> cs, tail |-> tl]

RECURSIVE ElementsOfSize(_)
RECURSIVE ForestsOfSize(_)
ElementsOfSize(n) ==
    {Element(t, cs, tl) : t \in FlatStrings, cs \in ForestsOfSize(n - 1), tl \in FlatStrings}
ForestsOfSize(k) ==
    IF k = 0 THEN {<<>>}
    ELSE UNION {{<<e>> \o f : e \in ElementsOfSize(j), f \in ForestsOfSize(k - j)} :
                  j \in 1..k}

\* the elements get_full_text is called on: the root's own tail is never read
RootElements(maxNodes) ==
    {Element(t, cs, <<>>) : t \in FlatStrings,
                            cs \in UNION {ForestsOfSize(n - 1) : n \in 1..maxNodes}}

RECURSIVE get_full_text(_)
RECURSIVE ChildrenText(_)
get_full_text(el) == Strip(el.text \o ChildrenText(el.children))
\* for child in element: text += get_full_text(child); text += child.tail
ChildrenText(cs) ==
    IF cs = <<>> THEN <<>>
    ELSE get_full_text(Head(cs)) \o Head(cs).tail \o ChildrenText(Tail(cs))

FlatInit ==
    /\ element \in RootElements(MaxNodes)
    /\ flat_result = <<>>
    /\ fpc = "call"

FlattenCall ==
    /\ fpc = "call"
    /\ flat_result' = get_full_text(element)
    /\ fpc' = "done"
    /\ UNCHANGED element
    /\ UNCHANGED <<segVars, exVars, mainVars, xlVars, kwVars>>

InitFlatten == FlatInit /\ SegIdle /\ ExIdle /\ MainIdle /\ XlIdle /\ KwIdle

SpecFlatten == InitFlatten /\ [][FlattenCall]_vars

\* every character of the texts and tails below an element, in reading order
RECURSIVE ReadingOrder(_)
RECURSIVE ReadingOrderOfChildren(_)
ReadingOrder(el) == el.text \o ReadingOrderOfChildren(el.children)
ReadingOrderOfChildren(cs) ==
    IF cs = <<>> THEN <<>>
    ELSE ReadingOrder(Head(cs)) \o Head(cs).tail \o ReadingOrderOfChildren(Tail(cs))

\* C4: get_full_text returns the reading-order concatenation of the element's
\* text and of every child's text and tail, trimmed at both ends: inside the
\* trimmed extent no character of any text or tail is dropped or duplicated;
\* text "a" with one child of text "b" and tail "c" gives "abc".
C4_FlattenKeepsEveryCharacter ==
    fpc = "done" => flat_result = Strip(ReadingOrder(element))

(***************************************************************************)
(* extract_paper_info of data_extractor.py.  An optional sub-element is a  *)
(* sequence of length 0 (absent) or 1 (present).                           *)
(***************************************************************************)
None == <<>>
Some(x) == <<x>>

\* Python's None as the value of a record field
PyNone == <<"<None>">>

N_A == NA
Default01 == <<"0", "1">>

\* mutant: the value is used as it was read, without padding
ZfillNoPad(s, width) == s

\* s.zfill(width)
RECURSIVE Zfill(_, _)
Zfill(s, width) ==
    IF Len(s) >= width THEN s
    ELSE IF s # <<>> /\ Head(s) \in {"+", "-"}
         THEN <<Head(s)>> \o Zfill(<<"0">> \o Tail(s), width - 1)
         ELSE Zfill(<<"0">> \o s, width)

\* sep.join(parts)
RECURSIVE Join(_, _)
Join(parts, sep) ==
    IF parts = <<>> THEN <<>>
    ELSE IF Len(parts) = 1 THEN Head(parts)
         ELSE Head(parts) \o sep \o Join(Tail(parts), sep)

\* element.findtext(tag, default): the default when the sub-element is absent
FindText(opt, default) == IF opt = None THEN default ELSE opt[1]

\* get_full_text(title_element) if title_element is not None else "N/A"
TitleOf(article) ==
    IF article.title # None THEN get_full_text(article.title[1]) ELSE N_A

\* journal_element.text if journal_element is not None else "N/A"
JournalOf(article) == IF article.journal # None THEN article.journal[1] ELSE N_A

\* f"{year}-{month}-{day}" of a PubDate element
PublishedDateOf(pub_date) ==
    LET year == FindText(pub_date.year, N_A)
        month == Zfill(FindText(pub_date.month, Default01), 2)
        day == Zfill(FindText(pub_date.day, Default01), 2)
    IN year \o <<"-">> \o month \o <<"-">> \o day

\* the "LastName, ForeName" entries of the authors that have a last name
RECURSIVE AuthorList(_)
AuthorList(authors) ==
    IF authors = <<>> THEN <<>>
    ELSE LET lastname == FindText(Head(authors).last, <<>>)
             forename == FindText(Head(authors).fore, <<>>)
         IN (IF lastname # <<>> THEN <<lastname \o <<",", " ">> \o forename>> ELSE <<>>)
            \o AuthorList(Tail(authors))

AuthorsOf(article) ==
    IF AuthorList(article.authors) # <<>>
    THEN Join(AuthorList(article.authors), <<",", " ">>)
    ELSE N_A

\* " ".join(get_full_text(part) for part in the AbstractText elements), or "N/A"
AbstractOf(article) ==
    IF article.abstract # None
    THEN Join([i \in 1..Len(article.abstract[1]) |-> get_full_text(article.abstract[1][i])],
              <<" ">>)
    ELSE N_A

\* the URL template is one token of the string
UrlOf(article) ==
    IF article.pmid # None
    THEN <<"https://pubmed.ncbi.nlm.nih.gov/">> \o article.pmid[1] \o <<"/">>
    ELSE N_A

\* pub_date.findtext(...) on a PubDate that article.find() did not find raises
\* AttributeError, which the function does not catch
RaisesAttributeError(article) == article.pubdate = None

\* the body of the loop over the PubmedArticle elements
PaperInfo(article) ==
    [Title |-> TitleOf(article),
     Journal |-> JournalOf(article),
     Published_Date |-> PublishedDateOf(article.pubdate[1]),
     Authors |-> AuthorsOf(article),
     Abstract |-> AbstractOf(article),
     URL |-> UrlOf(article)]

Outcome(raised, papers, logged) == [raised |-> raised, papers |-> papers, logged |-> logged]

\* mutant: the parse error is not caught
OnParseErrorRaised == Outcome(TRUE, <<>>, FALSE)

\* except ET.ParseError: print the error; return papers
OnParseError == Outcome(FALSE, <<>>, TRUE)

RECURSIVE ExtractArticles(_, _)
ExtractArticles(articles, papers) ==
    IF articles = <<>> THEN Outcome(FALSE, papers, FALSE)
    ELSE IF RaisesAttributeError(Head(articles)) THEN Outcome(TRUE, <<>>, FALSE)
         ELSE ExtractArticles(Tail(articles), Append(papers, PaperInfo(Head(articles))))

\* extract_paper_info(xml_data): what it returns, or that it raised
extract_paper_info(xml) ==
    IF xml.kind = "empty" THEN Outcome(FALSE, <<>>, FALSE)
    ELSE IF xml.kind = "malformed" THEN OnParseError
         ELSE ExtractArticles(xml.articles, <<>>)

(***************************************************************************)
(* The inputs of extract_paper_info.                                       *)
(***************************************************************************)
Leaf(t) == Element(t, <<>>, <<>>)

TitleElements ==
    {None, Some(Leaf(<<"t">>)), Some(Element(<<"a">>, <<Element(<<"b">>, <<>>, <<"c">>)>>, <<>>))}
JournalElements == {None, Some(PyNone), Some(<<"J">>)}
Years == {None, Some(<<"2", "0", "2", "4">>)}
Months == {None, Some(<<>>), Some(<<"3">>), Some(<<"1", "2">>), Some(<<"J", "a", "n">>)}
Days == {None, Some(<<"7">>), Some(<<"0", "7">>)}
PubDates ==
    {None} \cup {Some([year |-> y, month |-> m, day |-> d]) : y \in Years, m \in Months, d \in Days}
Author(l, f) == [last |-> l, fore |-> f]
AuthorElements == {Author(l, f) : l \in {None, Some(<<"L">>)}, f \in {None, Some(<<"F">>)}}
AuthorLists ==
    {<<>>} \cup {<<a>> : a \in AuthorElements}
    \cup {<<Author(Some(<<"L">>), Some(<<"F">>)), a>> : a \in AuthorElements}
Abstracts ==
    {None, Some(<<>>), Some(<<Leaf(<<"x">>)>>), Some(<<Leaf(<<"x">>), Leaf(<<" ", "y">>)>>)}
Pmids == {None, Some(<<"1">>)}

Articles ==
    {[title |-> t, journal |-> j, pubdate |-> p, authors |-> a, abstract |-> ab, pmid |-> id] :
        t \in TitleElements, j \in JournalElements, p \in PubDates,
        a \in AuthorLists, ab \in Abstracts, id \in Pmids}

FullArticle ==
    [title |-> Some(Leaf(<<"t">>)), journal |-> Some(<<"J">>),
     pubdate |-> Some([year |-> Some(<<"2", "0", "2", "4">>), month |-> Some(<<"3">>),
                       day |-> Some(<<"7">>)]),
     authors |-> <<Author(Some(<<"L">>), Some(<<"F">>))>>,
     abstract |-> Some(<<Leaf(<<"x">>)>>), pmid |-> Some(<<"1">>)]

\* a record with a publication date and nothing else
BareArticle ==
    [title |-> None, journal |-> None,
     pubdate |-> Some([year |-> Some(<<"2", "0", "2", "4">>), month |-> None, day |-> None]),
     authors |-> <<>>, abstract |-> None, pmid |-> None]

\* a record with everything but the publication date
UndatedArticle == [FullArticle EXCEPT !.pubdate = None]

Xml(kind, articles) == [kind |-> kind, articles |-> articles]

SampleBatches ==
    {Xml("batch", as) :
        as \in {<<FullArticle>>, <<BareArticle>>, <<FullArticle, BareArticle>>,
                <<UndatedArticle>>, <<FullArticle, UndatedArticle>>}}

XmlInputs ==
    {Xml("empty", <<>>), Xml("malformed", <<>>), Xml("batch", <<>>)}
    \cup {Xml("batch", <<a>>) : a \in Articles}
    \cup SampleBatches

ExInit ==
    /\ xml_data \in XmlInputs
    /\ ex_result = Outcome(FALSE, <<>>, FALSE)
    /\ epc = "call"

ExtractCall ==
    /\ epc = "call"
    /\ ex_result' = extract_paper_info(xml_data)
    /\ epc' = "done"
    /\ UNCHANGED xml_data
    /\ UNCHANGED <<segVars, flatVars, mainVars, xlVars, kwVars>>

InitExtract == ExInit /\ SegIdle /\ FlatIdle /\ MainIdle /\ XlIdle /\ KwIdle

SpecExtract == InitExtract /\ [][ExtractCall]_vars

\* C6: for a batch that parses, whatever sub-elements its records lack,
\* extract_paper_info raises no error and returns one record per PubmedArticle.
C6_MissingFieldsNeverRaise ==
    (epc = "done" /\ xml_data.kind = "batch") =>
        /\ ~ex_result.raised
        /\ Len(ex_result.papers) = Len(xml_data.articles)

\* a Month or Day as the specification describes it: "01" when the sub-field is
\* absent, otherwise its text with zeros in front up to two characters
PadTwo(t) == IF Len(t) = 0 THEN <<"0", "0">> ELSE IF Len(t) = 1 THEN <<"0">> \o t ELSE t
MonthOrDay(opt) == IF opt = None THEN <<"0", "1">> ELSE PadTwo(opt[1])
ExpectedDate(pd) ==
    pd.year[1] \o <<"-">> \o MonthOrDay(pd.month) \o <<"-">> \o MonthOrDay(pd.day)

\* C11: the Published Date of every extracted record whose PubDate has a Year is
\* Year-Month-Day joined with "-", Month and Day each being "01" when absent and
\* padded with zeros to two characters when present; year "2024" without month
\* and day gives "2024-01-01".
C11_PublishedDate ==
    (epc = "done" /\ xml_data.kind = "batch" /\ ~ex_result.raised) =>
        /\ Len(ex_result.papers) = Len(xml_data.articles)
        /\ \A i \in 1..Len(xml_data.articles) :
              LET pd == xml_data.articles[i].pubdate[1]
              IN /\ pd.year # None =>
                       ex_result.papers[i].Published_Date = ExpectedDate(pd)
                 /\ pd = [year |-> Some(<<"2", "0", "2", "4">>), month |-> None, day |-> None] =>
                       ex_result.papers[i].Published_Date =
                           <<"2", "0", "2", "4", "-", "0", "1", "-", "0", "1">>

\* C11 witness: a record was extracted whose PubDate has a Year, an unpadded
\* Month and no Day.
C11_Witness ==
    /\ epc = "done"
    /\ xml_data.kind = "batch"
    /\ ~ex_result.raised
    /\ \E i \in 1..Len(xml_data.articles) :
          LET pd == xml_data.articles[i].pubdate
          IN /\ pd # None
             /\ pd[1].year # None
             /\ pd[1].month = Some(<<"3">>)
             /\ pd[1].day = None
             /\ ex_result.papers[i].Published_Date =
                    <<"2", "0", "2", "4", "-", "0", "3", "-", "0", "1">>

(***************************************************************************)
(* The journal loop of main.py.                                            *)
(***************************************************************************)
MaxJournals == 3

MainInit ==
    /\ jidx = 1
    /\ all_papers = <<>>
    /\ mpc = "loop"
    /\ last_event = "none"

InLoop == mpc = "loop" /\ jidx <= MaxJournals

\* search_articles returned no id: the request failed (reported, [] returned)
\* or the journal has no article in the date range
JournalNoIds ==
    /\ InLoop
    /\ \E failed \in BOOLEAN : last_event' = IF failed THEN "search_failed" ELSE "no_ids"
    /\ jidx' = jidx + 1
    /\ UNCHANGED <<all_papers, mpc>>
    /\ UNCHANGED <<segVars, flatVars, exVars, xlVars, kwVars>>

\* fetch_article_details returned None (the request failed, reported) or an
\* empty body
JournalNoXml ==
    /\ InLoop
    /\ \E failed \in BOOLEAN : last_event' = IF failed THEN "fetch_failed" ELSE "empty_body"
    /\ jidx' = jidx + 1
    /\ UNCHANGED <<all_papers, mpc>>
    /\ UNCHANGED <<segVars, flatVars, exVars, xlVars, kwVars>>

\* xml_data = client.fetch_article_details(ids) has a body; its records are
\* extracted and collected
JournalExtract ==
    /\ InLoop
    /\ \E xml \in {Xml("malformed", <<>>)} \cup SampleBatches :
          LET r == extract_paper_info(xml)
          IN /\ xml_data' = xml
             /\ IF r.raised
                THEN /\ mpc' = "crashed"
                     /\ last_event' = "raised"
                     /\ UNCHANGED <<jidx, all_papers>>
                ELSE /\ all_papers' = all_papers \o r.papers
                     /\ last_event' = IF r.logged THEN "parse_error" ELSE "extracted"
                     /\ jidx' = jidx + 1
                     /\ UNCHANGED mpc
    /\ UNCHANGED <<ex_result, epc>>
    /\ UNCHANGED <<segVars, flatVars, xlVars, kwVars>>

\* after the loop: write_to_excel is called when a record was collected
MainFinish ==
    /\ mpc = "loop"
    /\ jidx > MaxJournals
    /\ mpc' = IF all_papers # <<>> THEN "write" ELSE "no_papers"
    /\ UNCHANGED <<jidx, all_papers, last_event>>
    /\ UNCHANGED <<segVars, flatVars, exVars, xlVars, kwVars>>

MainNext == JournalNoIds \/ JournalNoXml \/ JournalExtract \/ MainFinish

InitMain == MainInit /\ SegIdle /\ FlatIdle /\ ExIdle /\ XlIdle /\ KwIdle

SpecMain == InitMain /\ [][MainNext]_vars

FailureEvents == {"search_failed", "fetch_failed", "parse_error"}

\* C7: an iteration of the journal loop that meets a failed search, a failed
\* fetch or a batch that does not parse (reported, not raised) leaves the records
\* collected so far unchanged and moves on to the next journal; the loop is left
\* only when every journal has had its iteration, and never by an error raised
\* for a batch that does not parse.
C7_FailureSkipsJournal ==
    /\ [][(jidx' # jidx /\ last_event' \in FailureEvents) =>
             (all_papers' = all_papers /\ jidx' = jidx + 1 /\ mpc' = "loop")]_vars
    /\ [](mpc = "crashed" => xml_data.kind # "malformed")
    /\ [](mpc \in {"write", "no_papers"} => jidx = MaxJournals + 1)

\* C7 witness: a batch failed to parse after records were collected and with a
\* journal still to process.
C7_Witness ==
    /\ last_event = "parse_error"
    /\ xml_data = Xml("malformed", <<>>)
    /\ all_papers # <<>>
    /\ InLoop

(***************************************************************************)
(* The title filters and write_to_excel of excel_writer.py.  A paper is    *)
(* its Title; writer.sheets is the set of the sheets written, each with    *)
(* its name and its rows.                                                  *)
(***************************************************************************)
MaxPapers == 2
MaxKeywords == 2
MaxTitleLen == 2

Paper(title) == [Title |-> title]

\* keyword.lower() in title.lower()
TitleHasKeyword(paper, kw) == Contains(Lower(paper.Title), Lower(kw))

filter_papers_by_keyword(papers, kw) ==
    LET Keep(paper) == TitleHasKeyword(paper, kw)
    IN SelectSeq(papers, Keep)

\* mutant: the sub-keywords that are empty after strip() are not discarded
SubKeywordsOfFilterKeepEmpty(compound_keyword) ==
    LET parts == Split(compound_keyword, "+")
    IN [i \in 1..Len(parts) |-> Strip(parts[i])]

\* [k.strip() for k in compound_keyword.split('+') if k.strip()]
SubKeywordsOfFilter(compound_keyword) == SubKeywords(compound_keyword)

filter_papers_by_compound_keyword(papers, compound_keyword) ==
    LET subs == SubKeywordsOfFilter(compound_keyword)
        Keep(paper) == \E i \in 1..Len(subs) : TitleHasKeyword(paper, subs[i])
    IN IF subs = <<>> THEN <<>> ELSE SelectSeq(papers, Keep)

\* f"Keyword={keyword}": the prefix is one token of the name
SheetName(kw) == <<"Keyword=">> \o kw

Sheet(name, rows) == [name |-> name, rows |-> rows]

\* writing a sheet under a name that exists writes into that sheet
WriteSheet(shs, name, rows) == {sh \in shs : sh.name # name} \cup {Sheet(name, rows)}

SheetNames(shs) == {sh.name : sh \in shs}

\* mutant: the sheet is written whether or not a paper matched
HasFilteredPapersAlways(filtered) == TRUE

\* if filtered_papers:
HasFilteredPapers(filtered) == filtered # <<>>

SheetTitles == {<<"a", "B">>, <<"B">>, NA}
SheetKeywords == {<<"A">>, <<"b">>, <<"A", "+", "b">>, <<"+">>, <<" ", "+", " ", "x", " ">>}

SeqsUpTo(S, n) == UNION {[1..k -> S] : k \in 0..n}

\* main calls write_to_excel only with at least one record collected
PaperLists == SeqsUpTo({Paper(t) : t \in SheetTitles}, MaxPapers) \ {<<>>}
KeywordLists == SeqsUpTo(SheetKeywords, MaxKeywords)

XlInit ==
    /\ \/ papers_data \in PaperLists /\ keywords \in KeywordLists
       \/ /\ \E t \in StringsUpTo(TextAlphabet, MaxTitleLen) : papers_data = <<Paper(t)>>
          /\ \E kw \in SmallKeywords : keywords = <<kw>>
    /\ xpc = "call"
    /\ kwi = 0
    /\ filtered_papers = <<>>
    /\ fmti = 0
    /\ sheets = {}
    /\ reported = {}
    /\ formatted = {}

\* write_to_excel up to the keyword loop: the Summary and the Papers sheet
WriteCall ==
    /\ xpc = "call"
    /\ IF papers_data = <<>>
       THEN /\ xpc' = "done"
            /\ UNCHANGED <<sheets, kwi>>
       ELSE /\ sheets' = {Sheet(<<"Summary">>, <<>>), Sheet(<<"Papers">>, papers_data)}
            /\ kwi' = 1
            /\ xpc' = IF keywords # <<>> THEN "keywords" ELSE "done"
    /\ UNCHANGED <<papers_data, keywords, filtered_papers, fmti, reported, formatted>>
    /\ UNCHANGED <<segVars, flatVars, exVars, mainVars, kwVars>>

\* one iteration of the loop that writes the keyword sheets
KeywordSheet ==
    /\ xpc = "keywords"
    /\ LET kw == keywords[kwi]
           filtered == IF IsCompound(kw)
                       THEN filter_papers_by_compound_keyword(papers_data, kw)
                       ELSE filter_papers_by_keyword(papers_data, kw)
       IN /\ filtered_papers' = filtered
          /\ IF HasFilteredPapers(filtered)
             THEN /\ sheets' = WriteSheet(sheets, SheetName(kw), filtered)
                  /\ UNCHANGED reported
             ELSE /\ reported' = reported \cup {kw}
                  /\ UNCHANGED sheets
    /\ kwi' = kwi + 1
    /\ IF kwi + 1 > Len(keywords)
       THEN xpc' = "format" /\ fmti' = 1
       ELSE UNCHANGED <<xpc, fmti>>
    /\ UNCHANGED <<papers_data, keywords, formatted>>
    /\ UNCHANGED <<segVars, flatVars, exVars, mainVars, kwVars>>

\* one iteration of the loop that formats the keyword sheets that exist
FormatKeyword ==
    /\ xpc = "format"
    /\ formatted' = IF SheetName(keywords[fmti]) \in SheetNames(sheets)
                    THEN formatted \cup {keywords[fmti]}
                    ELSE formatted
    /\ fmti' = fmti + 1
    /\ xpc' = IF fmti + 1 > Len(keywords) THEN "done" ELSE "format"
    /\ UNCHANGED <<papers_data, keywords, kwi, filtered_papers, sheets, reported>>
    /\ UNCHANGED <<segVars, flatVars, exVars, mainVars, kwVars>>

ExcelNext == WriteCall \/ KeywordSheet \/ FormatKeyword

InitExcel == XlInit /\ SegIdle /\ FlatIdle /\ ExIdle /\ MainIdle /\ KwIdle

SpecExcel == InitExcel /\ [][ExcelNext]_vars

\* the pieces of a keyword spec between its '+' separators
PiecesOf(kw) ==
    {Slice(kw, ab[1], ab[2]) : ab \in
        {ab \in (0..Len(kw)) \X (0..Len(kw)) :
            /\ ab[1] <= ab[2]
            /\ ab[1] = 0 \/ kw[ab[1]] = "+"
            /\ ab[2] = Len(kw) \/ kw[ab[2] + 1] = "+"
            /\ \A i \in (ab[1] + 1)..ab[2] : kw[i] # "+"}}

\* a piece without the spaces before its first and after its last other character
Trimmed(piece) ==
    LET others == {i \in 1..Len(piece) : piece[i] # " "}
    IN IF others = {} THEN <<>>
       ELSE SubSeq(piece, MinOf(others), CHOOSE i \in others : \A j \in others : j <= i)

\* the non-empty trimmed sub-terms of a compound spec
SubTermsOf(kw) == {Trimmed(piece) : piece \in PiecesOf(kw)} \ {<<>>}

\* the title matches the keyword spec
TitleMatches(title, kw) ==
    IF IsCompound(kw)
    THEN \E term \in SubTermsOf(kw) : Contains(Lower(title), Lower(term))
    ELSE Contains(Lower(title), Lower(kw))

\* the records of the list that match, in the order of the list
RECURSIVE MatchingPapers(_, _)
MatchingPapers(papers, kw) ==
    IF papers = <<>> THEN <<>>
    ELSE (IF TitleMatches(Head(papers).Title, kw) THEN <<Head(papers)>> ELSE <<>>)
         \o MatchingPapers(Tail(papers), kw)

\* C5: the subset write_to_excel filters for a keyword spec holds exactly the
\* records whose Title contains, without regard to case, the plain term or at
\* least one non-empty trimmed sub-term of a compound spec; a compound spec with
\* no non-empty sub-term gives the empty subset.
C5_FilteredSubset ==
    (xpc \in {"keywords", "format", "done"} /\ kwi > 1) =>
        /\ filtered_papers = MatchingPapers(papers_data, keywords[kwi - 1])
        /\ (IsCompound(keywords[kwi - 1]) /\ SubTermsOf(keywords[kwi - 1]) = {})
              => filtered_papers = <<>>

\* C5 witness: a compound spec with an empty sub-term was filtered and a record
\* was left out of its subset.
C5_Witness ==
    /\ kwi > 1
    /\ IsCompound(keywords[kwi - 1])
    /\ <<>> \in {Trimmed(piece) : piece \in PiecesOf(keywords[kwi - 1])}
    /\ SubTermsOf(keywords[kwi - 1]) # {}
    /\ Len(filtered_papers) < Len(papers_data)

\* C9: when write_to_excel is done, every keyword spec of the list has its sheet
\* iff its filtered subset is not empty; a spec matching no title was reported
\* and has no sheet, and no keyword sheet is empty.
C9_SheetIffSubsetNonEmpty ==
    xpc = "done" =>
        /\ \A i \in 1..Len(keywords) :
              /\ SheetName(keywords[i]) \in SheetNames(sheets)
                    <=> MatchingPapers(papers_data, keywords[i]) # <<>>
              /\ keywords[i] \in reported
                    <=> MatchingPapers(papers_data, keywords[i]) = <<>>
        /\ \A sh \in sheets : sh.name \notin {<<"Summary">>, <<"Papers">>} => sh.rows # <<>>

\* C9 witness: of two keyword specs one got its sheet and the other was reported.
C9_Witness ==
    /\ xpc = "done"
    /\ \E i, j \in 1..Len(keywords) :
          /\ SheetName(keywords[i]) \in SheetNames(sheets)
          /\ keywords[j] \in reported


(***************************************************************************)
(* The filters and the highlighters together: write_to_excel picks both    *)
(* with the same test, '+' in keyword (lines 245 and 320), and hands the   *)
(* highlighter the Title of each record of the subset.                     *)
(***************************************************************************)
\* the record with this Title is in the subset write_to_excel filters for kw
InSubset(title, kw) ==
    IF IsCompound(kw)
    THEN filter_papers_by_compound_keyword(<<Paper(title)>>, kw) # <<>>
    ELSE filter_papers_by_keyword(<<Paper(title)>>, kw) # <<>>

HasHighlightedRun(runs) == \E i \in 1..Len(runs) : runs[i].hl

\* C13: when the Title of a record that the filter puts in the subset of a
\* keyword spec is segmented with the same spec, the result has at least one
\* highlighted run.
C13_FilterAndHighlighterAgree ==
    (pc = "done" /\ keyword # <<>> /\ InSubset(text, keyword)) => HasHighlightedRun(rich_text)

(***************************************************************************)
(* Termination of the match-scanning loops.                                *)
(***************************************************************************)
InScanLoop == pc \in {"scan", "collect"}

\* an iteration that finds an occurrence moves the search position forward
ScanStepAdvances ==
    [][(InScanLoop /\ pc' = pc /\ kidx' = kidx) => start' > start]_vars

\* the search position never passes the end of the lower-cased copy that the
\* loops search
PositionWithinLoweredText == InScanLoop => start <= Len(Lower(text))

\* a call that has not returned is at a step whose guard, or the guard of the
\* step that leaves the loop, holds: the sub-keyword searched exists and the
\* matches to build the runs from are not empty
CallCanProceed ==
    /\ pc \in {"call", "scan", "collect", "filter", "build", "done"}
    /\ pc = "collect" => kidx \in 1..Len(sub_keywords) /\ sub_keywords[kidx] # <<>>
    /\ pc = "scan" => keyword # <<>>
    /\ pc = "build" => filtered_matches # <<>>

\* C14: the match-scanning loops of both functions terminate for every text and
\* every keyword spec: an iteration either finds no further occurrence and
\* leaves the loop or moves the search position forward, and the position is
\* never greater than the length of the text.
C14_ScanLoopsTerminate ==
    [][/\ (InScanLoop /\ pc' = pc /\ kidx' = kidx) => start' > start
       /\ InScanLoop' => start' <= Len(text')]_vars

(***************************************************************************)
(* get_keywords of main.py: the line the user types is parsed into the     *)
(* keywords that main hands to write_to_excel, and the parsed keywords are *)
(* displayed with the sub-keywords of each compound one.                   *)
(***************************************************************************)
MaxInputLen == 5

\* keyword.strip() for keyword in parts
StripEach(parts) == [i \in 1..Len(parts) |-> Strip(parts[i])]

\* keywords_input = input(...).strip(); [] when it is empty, otherwise
\* [keyword.strip() for keyword in keywords_input.split(",") if keyword.strip()]
get_keywords(typed) ==
    LET stripped == Strip(typed)
    IN IF stripped = <<>> THEN <<>>
       ELSE SelectSeqNonEmpty(StripEach(Split(stripped, ",")))

\* [k.strip() for k in keyword.split('+')]: the empty parts are kept here
DisplaySubKeywords(kw) == StripEach(Split(kw, "+"))

\* f"{keyword} (OR: {', '.join(sub_keywords)})" for a compound keyword, the
\* keyword itself otherwise
DisplayKeyword(kw) ==
    IF IsCompound(kw)
    THEN kw \o <<" ", "(", "O", "R", ":", " ">> \o Join(DisplaySubKeywords(kw), <<",", " ">>)
            \o <<")">>
    ELSE kw

InputAlphabet == {"a", "B", ",", "+", " "}

ExampleInput ==
    <<"e","n","z","y","m","e",","," ","p","r","o","t","e","i","n","+","f","o","l","d",
      ","," ","M","L">>

KwInit ==
    /\ keywords_input \in StringsUpTo(InputAlphabet, MaxInputLen) \cup {ExampleInput}
    /\ display_keywords = <<>>
    /\ gpc = "call"

GetKeywordsCall ==
    /\ gpc = "call"
    /\ LET parsed == get_keywords(keywords_input)
       IN /\ keywords' = parsed
          /\ display_keywords' = [i \in 1..Len(parsed) |-> DisplayKeyword(parsed[i])]
    /\ gpc' = "done"
    /\ UNCHANGED keywords_input
    /\ UNCHANGED <<papers_data, xpc, kwi, filtered_papers, fmti, sheets, reported, formatted>>
    /\ UNCHANGED <<segVars, flatVars, exVars, mainVars>>

InitKeywords == KwInit /\ SegIdle /\ FlatIdle /\ ExIdle /\ MainIdle /\ XlIdle

SpecKeywords == InitKeywords /\ [][GetKeywordsCall]_vars

\* the trimmed non-empty pieces of a line between its separators, in order
RECURSIVE TrimmedPieces(_, _)
TrimmedPieces(line, sep) ==
    LET seps == {i \in 1..Len(line) : line[i] = sep}
        first == IF seps = {} THEN Len(line) + 1 ELSE MinOf(seps)
        piece == Trimmed(SubSeq(line, 1, first - 1))
        rest == IF seps = {} THEN <<>>
                ELSE TrimmedPieces(SubSeq(line, first + 1, Len(line)), sep)
    IN (IF piece = <<>> THEN <<>> ELSE <<piece>>) \o rest

\* a spec as the specification describes it: compound with its sub-terms, or plain
ParsedSpec(piece) ==
    IF IsCompound(piece)
    THEN [kind |-> "compound", spec |-> piece, terms |-> TrimmedPieces(piece, "+")]
    ELSE [kind |-> "plain", spec |-> piece, terms |-> <<piece>>]

\* the display of a spec with the given sub-terms
DisplayOf(ps) ==
    IF ps.kind = "compound"
    THEN ps.spec \o <<" ", "(", "O", "R", ":", " ">> \o Join(ps.terms, <<",", " ">>) \o <<")">>
    ELSE ps.spec

\* the keywords get_keywords returns are the trimmed non-empty pieces between the
\* commas of the input, in the order of the input
KeywordsAreTrimmedPieces ==
    gpc = "done" => keywords = TrimmedPieces(keywords_input, ",")

\* C12: the input is split on ',' into specs, each trimmed, the empty ones
\* discarded, in the order of the input; a spec with '+' is compound and its
\* sub-terms are its trimmed non-empty parts between the '+', any other spec is
\* plain; "enzyme, protein+fold, ML" gives plain "enzyme", compound
\* ["protein", "fold"] and plain "ML".
C12_KeywordParsing ==
    gpc = "done" =>
        /\ keywords = TrimmedPieces(keywords_input, ",")
        /\ Len(display_keywords) = Len(keywords)
        /\ \A i \in 1..Len(keywords) :
              display_keywords[i] = DisplayOf(ParsedSpec(keywords[i]))
        /\ keywords_input = ExampleInput =>
              /\ keywords = <<<<"e","n","z","y","m","e">>,
                              <<"p","r","o","t","e","i","n","+","f","o","l","d">>,
                              <<"M","L">>>>
              /\ DisplaySubKeywords(keywords[2]) =
                    <<<<"p","r","o","t","e","i","n">>, <<"f","o","l","d">>>>
====
